---- MODULE Spec2Model ----
(***************************************************************************)
(* Model of the subtitle-burning service of src/main.py.                   *)
(*                                                                         *)
(* Text is modelled at character level: a Python str is a sequence of      *)
(* one-character strings, so that splitlines, strip, isdigit, the          *)
(* time-range regular expression, split and int are computed as the code   *)
(* computes them.  Times are kept in integer milliseconds (1000 units per  *)
(* second), which represents h*3600 + m*60 + s + ms/1000.0 exactly.        *)
(***************************************************************************)
EXTENDS Integers, Sequences, FiniteSets, TLC

(***************************************************************************)
(* Bounds of the model.                                                    *)
(***************************************************************************)
\* longest input, in lines, given to parse_srt under SpecParse
MaxLines == 5
\* number of concurrent requests under Spec
NumRequests == 2

(***************************************************************************)
(* Characters.                                                             *)
(***************************************************************************)
DigitChars == <<"0", "1", "2", "3", "4", "5", "6", "7", "8", "9">>

\* the characters \d and str.isdigit accept (ASCII part)
Digits == {DigitChars[i] : i \in 1..10}

\* the characters str.strip removes
Whitespace == {" ", "\t", "\n", "\r"}

\* the characters str.splitlines breaks at
LineBreaks == {"\n", "\r"}

\* the literal " --> " of the pattern
Arrow == <<" ", "-", "-", ">", " ">>

\* int() of one decimal digit
DigitValue(c) == CHOOSE d \in 0..9 : DigitChars[d + 1] = c

(***************************************************************************)
(* Builders of input text (how the inputs of the model are written down).  *)
(* A stamp is given by its four fields <<HH, MM, SS, mmm>>.                *)
(***************************************************************************)
TwoDigits(n) == <<DigitChars[(n \div 10) + 1], DigitChars[(n % 10) + 1]>>

ThreeDigits(n) ==
    <<DigitChars[(n \div 100) + 1], DigitChars[((n \div 10) % 10) + 1],
      DigitChars[(n % 10) + 1]>>

\* the text HH:MM:SS,mmm of the fields f
Stamp(f) ==
    TwoDigits(f[1]) \o <<":">> \o TwoDigits(f[2]) \o <<":">> \o
    TwoDigits(f[3]) \o <<",">> \o ThreeDigits(f[4])

\* the value the fields f denote, in milliseconds
FieldMs(f) == ((f[1] * 60 + f[2]) * 60 + f[3]) * 1000 + f[4]

(***************************************************************************)
(* str.splitlines, str.strip, str.isdigit, str.split                       *)
(***************************************************************************)
\* index of the first element of s at or after i that lies in set, or 0
RECURSIVE FirstIn(_, _, _)
FirstIn(s, i, set) ==
    IF i > Len(s) THEN 0
    ELSE IF s[i] \in set THEN i
    ELSE FirstIn(s, i + 1, set)

RECURSIVE splitlines(_)
splitlines(s) ==
    IF s = <<>> THEN <<>>
    ELSE LET k == FirstIn(s, 1, LineBreaks)
         IN  IF k = 0 THEN <<s>>
             ELSE LET crlf == s[k] = "\r" /\ k < Len(s) /\ s[k + 1] = "\n"
                      rest == SubSeq(s, IF crlf THEN k + 2 ELSE k + 1, Len(s))
                  IN  <<SubSeq(s, 1, k - 1)>> \o splitlines(rest)

RECURSIVE lstrip(_)
lstrip(s) ==
    IF s # <<>> /\ Head(s) \in Whitespace THEN lstrip(Tail(s)) ELSE s

RECURSIVE rstrip(_)
rstrip(s) ==
    IF s # <<>> /\ s[Len(s)] \in Whitespace
    THEN rstrip(SubSeq(s, 1, Len(s) - 1))
    ELSE s

strip(s) == rstrip(lstrip(s))

isdigit(s) == s # <<>> /\ \A i \in 1..Len(s) : s[i] \in Digits

\* s.split(sep) for a one-character separator
RECURSIVE split(_, _)
split(s, sep) ==
    LET k == FirstIn(s, 1, {sep})
    IN  IF k = 0 THEN <<s>>
        ELSE <<SubSeq(s, 1, k - 1)>> \o split(SubSeq(s, k + 1, Len(s)), sep)

\* int(s) for a string of decimal digits
RECURSIVE int(_)
int(s) ==
    IF Len(s) = 1 THEN DigitValue(s[1])
    ELSE 10 * int(SubSeq(s, 1, Len(s) - 1)) + DigitValue(s[Len(s)])

(***************************************************************************)
(* The pattern (\d{2}:\d{2}:\d{2},\d{3}) --> (\d{2}:\d{2}:\d{2},\d{3})     *)
(***************************************************************************)
\* \d{2}:\d{2}:\d{2},\d{3} matches s at position i
StampAt(s, i) ==
    /\ i + 11 <= Len(s)
    /\ \A j \in {0, 1, 3, 4, 6, 7, 9, 10, 11} : s[i + j] \in Digits
    /\ s[i + 2] = ":"
    /\ s[i + 5] = ":"
    /\ s[i + 8] = ","

\* the whole pattern matches s at position i
PatternAt(s, i) ==
    /\ i + 28 <= Len(s)
    /\ StampAt(s, i)
    /\ SubSeq(s, i + 12, i + 16) = Arrow
    /\ StampAt(s, i + 17)

\* pattern.findall(line): the groups of the non-overlapping matches, left to right
RECURSIVE findall_from(_, _)
findall_from(line, i) ==
    IF i + 28 > Len(line) THEN <<>>
    ELSE IF PatternAt(line, i)
         THEN <<<<SubSeq(line, i, i + 11), SubSeq(line, i + 17, i + 28)>>>>
              \o findall_from(line, i + 29)
         ELSE findall_from(line, i + 1)

findall(line) == findall_from(line, 1)

(***************************************************************************)
(* parse_srt.  The accumulator holds the locals of the function; bound     *)
(* tells whether start_time and end_time have been assigned yet (reading   *)
(* them before raises UnboundLocalError, recorded as raised).              *)
(***************************************************************************)
NoStamp == <<>>

ParseStart ==
    [subtitles |-> <<>>, text |-> <<>>, start_time |-> NoStamp,
     end_time |-> NoStamp, bound |-> FALSE, raised |-> FALSE]

\* subtitles.append((start_time, end_time, text)), lines 27 and 34
append_subtitle(acc) ==
    IF ~acc.bound
    THEN [acc EXCEPT !.raised = TRUE]
    ELSE [acc EXCEPT !.subtitles =
            Append(@, [start_time |-> acc.start_time,
                       end_time |-> acc.end_time, text |-> acc.text])]

\* the join without its separator
join_text_unspaced(text, line) == text \o line

\* text += " " + line if text else line
join_text(text, line) == IF text # <<>> THEN text \o <<" ">> \o line ELSE line

\* one iteration of the loop over the lines
parse_line(raw, acc) ==
    LET line == strip(raw)
        matches == findall(line)
    IN  IF matches # <<>>
        THEN LET a == IF acc.text # <<>> THEN append_subtitle(acc) ELSE acc
             IN  IF a.raised THEN a
                 ELSE [a EXCEPT !.start_time = matches[1][1],
                                !.end_time = matches[1][2],
                                !.text = <<>>,
                                !.bound = TRUE]
        ELSE IF line # <<>> /\ ~isdigit(line)
             THEN [acc EXCEPT !.text = join_text(acc.text, line)]
             ELSE acc

RECURSIVE parse_loop(_, _)
parse_loop(lines, acc) ==
    IF lines = <<>> \/ acc.raised THEN acc
    ELSE parse_loop(Tail(lines), parse_line(Head(lines), acc))

\* the call without the append after the loop
parse_srt_unflushed(srt_content) ==
    LET acc == parse_loop(splitlines(srt_content), ParseStart)
    IN  [raised |-> acc.raised,
         subtitles |-> IF acc.raised THEN <<>> ELSE acc.subtitles]

\* the result of the call: raised, or the list returned
parse_srt(srt_content) ==
    LET acc == parse_loop(splitlines(srt_content), ParseStart)
        fin == IF ~acc.raised /\ acc.text # <<>> THEN append_subtitle(acc) ELSE acc
    IN  [raised |-> fin.raised,
         subtitles |-> IF fin.raised THEN <<>> ELSE fin.subtitles]

(***************************************************************************)
(* srt_time_to_seconds, in milliseconds.                                   *)
(***************************************************************************)
\* the conversion with minutes and seconds rolled into their clock range
srt_time_to_seconds_clock(srt_time) ==
    LET parts == split(srt_time, ":")
        s_ms == split(parts[3], ",")
    IN  int(parts[1]) * 3600000 + (int(parts[2]) % 60) * 60000
        + (int(s_ms[1]) % 60) * 1000 + int(s_ms[2])

srt_time_to_seconds(srt_time) ==
    LET parts == split(srt_time, ":")
        h == int(parts[1])
        m == int(parts[2])
        s_ms == split(parts[3], ",")
        s == int(s_ms[1])
        ms == int(s_ms[2])
    IN  h * 3600000 + m * 60000 + s * 1000 + ms

(***************************************************************************)
(* Inputs.  A line of SRT text is written down by what it is: its kind,    *)
(* the text around its body (pre, post), its body, and for a time-range    *)
(* line the fields of its two stamps.                                      *)
(***************************************************************************)
NoFields == <<0, 0, 0, 0>>

BlankLine(pre) ==
    [kind |-> "blank", pre |-> pre, body |-> <<>>, post |-> <<>>,
     st |-> NoFields, en |-> NoFields]

DigitLine(body) ==
    [kind |-> "digit", pre |-> <<>>, body |-> body, post |-> <<>>,
     st |-> NoFields, en |-> NoFields]

TextLine(pre, body, post) ==
    [kind |-> "text", pre |-> pre, body |-> body, post |-> post,
     st |-> NoFields, en |-> NoFields]

TimeLine(pre, st, en, post) ==
    [kind |-> "time", pre |-> pre, body |-> <<>>, post |-> post,
     st |-> st, en |-> en]

\* the characters of a line
Render(d) ==
    d.pre \o (IF d.kind = "time" THEN Stamp(d.st) \o Arrow \o Stamp(d.en)
              ELSE d.body) \o d.post

\* the lines ds, each but the last followed by the line break eol
RECURSIVE JoinLines(_, _)
JoinLines(ds, eol) ==
    IF ds = <<>> THEN <<>>
    ELSE IF Len(ds) = 1 THEN Render(ds[1])
    ELSE Render(ds[1]) \o eol \o JoinLines(Tail(ds), eol)

\* the lines SpecParse builds its inputs from
LineSet ==
    { BlankLine(<<>>),
      BlankLine(<<" ", "\t">>),
      DigitLine(<<"1", "2">>),
      TextLine(<<>>, <<"H", "i">>, <<>>),
      TextLine(<<" ">>, <<"a", " ", "b">>, <<"\t">>),
      TextLine(<<>>, <<"4", "2", "x">>, <<>>),
      TextLine(<<>>, Stamp(<<0, 0, 1, 0>>) \o <<" ", "-", ">", " ">>
                     \o Stamp(<<0, 0, 3, 500>>), <<>>),
      TimeLine(<<>>, <<0, 0, 1, 0>>, <<0, 0, 3, 500>>, <<>>),
      TimeLine(<<"x", " ">>, <<1, 2, 3, 456>>, <<0, 99, 75, 7>>, <<" ">>) }

EolSet == { <<"\n">>, <<"\r", "\n">> }

\* the stamps SpecTime converts: every field at, inside and beyond its
\* clock range
HourSet == {0, 1, 23, 99}
MinuteSet == {0, 2, 59, 99}
SecondSet == {0, 3, 59, 75}
MilliSet == {0, 7, 456, 999}
FieldSet == HourSet \X MinuteSet \X SecondSet \X MilliSet

(***************************************************************************)
(* State.                                                                  *)
(***************************************************************************)
VARIABLES
    \* SpecParse: one call of parse_srt
    src_lines,      \* the lines the input is made of
    eol,            \* the line break between them
    srt_content,    \* the argument of parse_srt
    parse_pc,       \* "ready" before the call, "done" after
    parse_out,      \* what the call produced
    \* SpecTime: one call of srt_time_to_seconds
    time_fields,    \* the fields the argument is made of
    srt_time,       \* the argument of srt_time_to_seconds
    time_pc,        \* "ready" before the call, "done" after
    total_seconds,  \* the value returned, in milliseconds
    \* Spec: the service, one entry per request
    form,           \* request.files of the request
    pc,             \* where the request is
    video_content,  \* the bytes read from the video part
    srt_text,       \* the decoded text read from the srt part
    invoked,        \* add_subtitles_to_video has been called
    video,          \* what VideoFileClip opened
    subtitles,      \* what parse_srt returned
    subtitle_clips, \* the overlays built so far
    result,         \* the composite that was encoded
    status,         \* the status of the response
    body,           \* the body of the response
    temp_file       \* the file temp_video.mp4, shared by all requests

parse_vars == <<src_lines, eol, srt_content, parse_pc, parse_out>>
time_vars == <<time_fields, srt_time, time_pc, total_seconds>>
service_vars ==
    <<form, pc, video_content, srt_text, invoked, video, subtitles,
      subtitle_clips, result, status, body, temp_file>>
vars == <<parse_vars, time_vars, service_vars>>

NoResult == [raised |-> FALSE, subtitles |-> <<>>]

ParseIdle ==
    /\ src_lines = <<>>
    /\ eol = <<>>
    /\ srt_content = <<>>
    /\ parse_pc = "idle"
    /\ parse_out = NoResult

TimeIdle ==
    /\ time_fields = NoFields
    /\ srt_time = <<>>
    /\ time_pc = "idle"
    /\ total_seconds = 0

(***************************************************************************)
(* The service: POST /add_subtitles and add_subtitles_to_video.            *)
(***************************************************************************)
Requests == 1..NumRequests

\* bytes of a video: which upload they are, and whether they decode
NoBytes == [id |-> 0, valid |-> FALSE]

\* the file temp_video.mp4
NoFile == [exists |-> FALSE, content |-> NoBytes]

FileOf(bytes) == [exists |-> TRUE, content |-> bytes]

\* a part the multipart form does not have
NoPart(empty) == [present |-> FALSE, filename |-> "", content |-> empty]

\* the SRT files uploaded under Spec
SampleLines ==
    << \* three cues: one shown 2.5 s, one of no duration, one ending
       \* before it starts
       << DigitLine(<<"1">>),
          TimeLine(<<>>, <<0, 0, 1, 0>>, <<0, 0, 3, 500>>, <<>>),
          TextLine(<<>>, <<"H", "i">>, <<>>),
          BlankLine(<<>>),
          TimeLine(<<>>, <<0, 0, 4, 0>>, <<0, 0, 4, 0>>, <<>>),
          TextLine(<<>>, <<"a">>, <<>>),
          TextLine(<<>>, <<"b">>, <<>>),
          TimeLine(<<>>, <<0, 1, 0, 0>>, <<0, 0, 59, 999>>, <<>>),
          TextLine(<<>>, <<"c">>, <<>>) >>,
       \* text before the first time-range line
       << TextLine(<<>>, <<"H", "i">>, <<>>),
          TimeLine(<<>>, <<0, 0, 1, 0>>, <<0, 0, 3, 500>>, <<>>),
          TextLine(<<>>, <<"a">>, <<>>) >>,
       \* no cue at all
       << DigitLine(<<"1">>) >> >>

SrtSamples == {JoinLines(SampleLines[k], <<"\n">>) : k \in DOMAIN SampleLines}

\* the lines the uploaded text was made of
SampleOf(text) ==
    SampleLines[CHOOSE k \in DOMAIN SampleLines :
                    JoinLines(SampleLines[k], <<"\n">>) = text]

\* the video parts request r may send: none, one without a file selected,
\* a file that decodes, a file that does not
VideoParts(r) ==
    { NoPart(NoBytes),
      [present |-> TRUE, filename |-> "", content |-> NoBytes] }
    \cup { [present |-> TRUE, filename |-> "clip.mp4",
            content |-> [id |-> r, valid |-> v]] : v \in BOOLEAN }

SrtParts ==
    { NoPart(<<>>), [present |-> TRUE, filename |-> "", content |-> <<>>] }
    \cup { [present |-> TRUE, filename |-> "subs.srt", content |-> c] :
            c \in SrtSamples }

Forms(r) == [video : VideoParts(r), srt : SrtParts]

NoBody == [kind |-> "none", error |-> "", video |-> NoBytes, overlays |-> <<>>]

ErrorJson(msg) ==
    [kind |-> "json", error |-> msg, video |-> NoBytes, overlays |-> <<>>]

\* the response werkzeug gives for request.files[key] with no such key
BadRequestKey ==
    [kind |-> "html", error |-> "Bad Request", video |-> NoBytes,
     overlays |-> <<>>]

\* the response Flask gives when the handler raises
ServerError ==
    [kind |-> "html", error |-> "Internal Server Error", video |-> NoBytes,
     overlays |-> <<>>]

\* send_file(BytesIO(output_video_content), ...)
VideoBody(res) ==
    [kind |-> "video/mp4", error |-> "", video |-> res.video,
     overlays |-> res.overlays]

NoComposite == [video |-> NoBytes, overlays |-> <<>>]

ServiceIdle ==
    /\ form = <<>>
    /\ pc = <<>>
    /\ video_content = <<>>
    /\ srt_text = <<>>
    /\ invoked = <<>>
    /\ video = <<>>
    /\ subtitles = <<>>
    /\ subtitle_clips = <<>>
    /\ result = <<>>
    /\ status = <<>>
    /\ body = <<>>
    /\ temp_file = NoFile

Init ==
    /\ form \in [Requests -> UNION {Forms(r) : r \in Requests}]
    /\ \A r \in Requests : form[r] \in Forms(r)
    /\ pc = [r \in Requests |-> "received"]
    /\ video_content = [r \in Requests |-> NoBytes]
    /\ srt_text = [r \in Requests |-> <<>>]
    /\ invoked = [r \in Requests |-> FALSE]
    /\ video = [r \in Requests |-> NoBytes]
    /\ subtitles = [r \in Requests |-> <<>>]
    /\ subtitle_clips = [r \in Requests |-> <<>>]
    /\ result = [r \in Requests |-> NoComposite]
    /\ status = [r \in Requests |-> 0]
    /\ body = [r \in Requests |-> NoBody]
    /\ temp_file = NoFile
    /\ ParseIdle
    /\ TimeIdle

\* 'video' not in request.files or 'srt' not in request.files
part_missing(files) == ~files.video.present \/ ~files.srt.present

\* the test with only one of the two filenames looked at
no_selected_file_video_only(video_file, srt_file) == video_file.filename = ""

\* video_file.filename == '' or srt_file.filename == ''
no_selected_file(video_file, srt_file) ==
    video_file.filename = "" \/ srt_file.filename = ""

\* the request ends with the given response
Respond(r, code, content) ==
    /\ pc' = [pc EXCEPT ![r] = "done"]
    /\ status' = [status EXCEPT ![r] = code]
    /\ body' = [body EXCEPT ![r] = content]

\* an exception leaves add_subtitles_to_video and the handler
Raise(r) == Respond(r, 500, ServerError)

\* the handler, up to its call of add_subtitles_to_video
add_subtitles(r) ==
    /\ pc[r] = "received"
    /\ IF part_missing(form[r])
       THEN /\ Respond(r, 400, ErrorJson("No video or SRT file part"))
            /\ UNCHANGED <<video_content, srt_text, invoked>>
       ELSE IF ~form[r].video.present \/ ~form[r].srt.present
       THEN /\ Respond(r, 400, BadRequestKey)
            /\ UNCHANGED <<video_content, srt_text, invoked>>
       ELSE IF no_selected_file(form[r].video, form[r].srt)
       THEN /\ Respond(r, 400, ErrorJson("No selected file"))
            /\ UNCHANGED <<video_content, srt_text, invoked>>
       ELSE /\ video_content' = [video_content EXCEPT ![r] = form[r].video.content]
            /\ srt_text' = [srt_text EXCEPT ![r] = form[r].srt.content]
            /\ invoked' = [invoked EXCEPT ![r] = TRUE]
            /\ pc' = [pc EXCEPT ![r] = "write"]
            /\ UNCHANGED <<status, body>>
    /\ UNCHANGED <<form, video, subtitles, subtitle_clips, result, temp_file,
                   parse_vars, time_vars>>

\* with open(video_path, 'wb') as f: f.write(video_content)
write_temp(r) ==
    /\ pc[r] = "write"
    /\ temp_file' = FileOf(video_content[r])
    /\ pc' = [pc EXCEPT ![r] = "open"]
    /\ UNCHANGED <<form, video_content, srt_text, invoked, video, subtitles,
                   subtitle_clips, result, status, body, parse_vars, time_vars>>

\* video = VideoFileClip(video_path): raises when the file is absent or
\* does not decode
open_video(r) ==
    /\ pc[r] = "open"
    /\ IF temp_file.exists /\ temp_file.content.valid
       THEN /\ video' = [video EXCEPT ![r] = temp_file.content]
            /\ pc' = [pc EXCEPT ![r] = "parse"]
            /\ UNCHANGED <<status, body>>
       ELSE /\ Raise(r)
            /\ UNCHANGED video
    /\ UNCHANGED <<form, video_content, srt_text, invoked, subtitles,
                   subtitle_clips, result, temp_file, parse_vars, time_vars>>

\* subtitles = parse_srt(srt_content)
parse_subtitles(r) ==
    /\ pc[r] = "parse"
    /\ LET out == parse_srt(srt_text[r])
       IN  IF out.raised
           THEN /\ Raise(r)
                /\ UNCHANGED subtitles
           ELSE /\ subtitles' = [subtitles EXCEPT ![r] = out.subtitles]
                /\ pc' = [pc EXCEPT ![r] = "clips"]
                /\ UNCHANGED <<status, body>>
    /\ UNCHANGED <<form, video_content, srt_text, invoked, video,
                   subtitle_clips, result, temp_file, parse_vars, time_vars>>

\* the overlay with its duration kept from going below zero
overlay_clamped(record) ==
    LET start == srt_time_to_seconds(record.start_time)
        end == srt_time_to_seconds(record.end_time)
    IN  [text |-> record.text, start |-> start,
         duration |-> IF end > start THEN end - start ELSE 0]

\* generator(text).set_start(start).set_duration(end - start)
overlay(record) ==
    LET start == srt_time_to_seconds(record.start_time)
        end == srt_time_to_seconds(record.end_time)
    IN  [text |-> record.text, start |-> start, duration |-> end - start]

\* one iteration of the loop over subtitles; building the text clip is the
\* text renderer's work and may fail
build_clip(r) ==
    /\ pc[r] = "clips"
    /\ Len(subtitle_clips[r]) < Len(subtitles[r])
    /\ \E rendered \in BOOLEAN :
          IF rendered
          THEN /\ subtitle_clips' =
                    [subtitle_clips EXCEPT ![r] =
                        Append(@, overlay(subtitles[r][Len(@) + 1]))]
               /\ UNCHANGED <<pc, status, body>>
          ELSE /\ Raise(r)
               /\ UNCHANGED subtitle_clips
    /\ UNCHANGED <<form, video_content, srt_text, invoked, video, subtitles,
                   result, temp_file, parse_vars, time_vars>>

\* what the encoder may read as the base video: the frames are read from
\* temp_video.mp4 while encoding, so a file rewritten since it was opened
\* may be read instead
EncodeSources(r) ==
    {video[r]} \cup
    (IF temp_file.exists /\ temp_file.content.valid
     THEN {temp_file.content} ELSE {})

\* CompositeVideoClip([video] + subtitle_clips), set_audio, write_videofile;
\* encoding is the media engine's work and may fail
encode(r) ==
    /\ pc[r] = "clips"
    /\ Len(subtitle_clips[r]) = Len(subtitles[r])
    /\ \E encoded \in BOOLEAN, base \in EncodeSources(r) :
          IF encoded
          THEN /\ result' = [result EXCEPT ![r] =
                                [video |-> base, overlays |-> subtitle_clips[r]]]
               /\ pc' = [pc EXCEPT ![r] = "remove"]
               /\ UNCHANGED <<status, body>>
          ELSE /\ Raise(r)
               /\ UNCHANGED result
    /\ UNCHANGED <<form, video_content, srt_text, invoked, video, subtitles,
                   subtitle_clips, temp_file, parse_vars, time_vars>>

\* os.remove(video_path), return, send_file: os.remove raises when the file
\* is not there
remove_temp(r) ==
    /\ pc[r] = "remove"
    /\ IF temp_file.exists
       THEN /\ temp_file' = NoFile
            /\ Respond(r, 200, VideoBody(result[r]))
       ELSE /\ Raise(r)
            /\ UNCHANGED temp_file
    /\ UNCHANGED <<form, video_content, srt_text, invoked, video, subtitles,
                   subtitle_clips, result, parse_vars, time_vars>>

\* add_subtitles_to_video, step by step
add_subtitles_to_video(r) ==
    \/ write_temp(r)
    \/ open_video(r)
    \/ parse_subtitles(r)
    \/ build_clip(r)
    \/ encode(r)
    \/ remove_temp(r)

Next == \E r \in Requests : add_subtitles(r) \/ add_subtitles_to_video(r)

Spec == Init /\ [][Next]_vars

(***************************************************************************)
(* SpecParse: parse_srt applied to every text of at most MaxLines lines.   *)
(***************************************************************************)
ParseInit ==
    /\ src_lines \in UNION {[1..n -> LineSet] : n \in 0..MaxLines}
    /\ eol \in EolSet
    /\ srt_content = JoinLines(src_lines, eol)
    /\ parse_pc = "ready"
    /\ parse_out = NoResult
    /\ TimeIdle
    /\ ServiceIdle

CallParse ==
    /\ parse_pc = "ready"
    /\ parse_out' = parse_srt(srt_content)
    /\ parse_pc' = "done"
    /\ UNCHANGED <<src_lines, eol, srt_content, time_vars, service_vars>>

ParseNext == CallParse

SpecParse == ParseInit /\ [][ParseNext]_vars

(***************************************************************************)
(* SpecTime: srt_time_to_seconds applied to every stamp of FieldSet.       *)
(***************************************************************************)
TimeInit ==
    /\ time_fields \in FieldSet
    /\ srt_time = Stamp(time_fields)
    /\ time_pc = "ready"
    /\ total_seconds = 0
    /\ ParseIdle
    /\ ServiceIdle

CallTime ==
    /\ time_pc = "ready"
    /\ total_seconds' = srt_time_to_seconds(srt_time)
    /\ time_pc' = "done"
    /\ UNCHANGED <<time_fields, srt_time, parse_vars, service_vars>>

TimeNext == CallTime

SpecTime == TimeInit /\ [][TimeNext]_vars

(***************************************************************************)
(* What an input is made of, read off its lines (not off its characters).  *)
(***************************************************************************)
\* the positions of the time-range lines of ds
TimeIdx(ds) == {i \in 1..Len(ds) : ds[i].kind = "time"}

\* the position of the k-th time-range line of ds
KthTime(ds, k) ==
    CHOOSE i \in TimeIdx(ds) : Cardinality({j \in TimeIdx(ds) : j <= i}) = k

\* the position of the first time-range line after position i, or Len(ds) + 1
NextTime(ds, i) ==
    IF \E j \in TimeIdx(ds) : j > i
    THEN CHOOSE j \in TimeIdx(ds) :
            j > i /\ \A l \in TimeIdx(ds) : l > i => j <= l
    ELSE Len(ds) + 1

\* the positions of the text lines of the cue whose time-range line is at i
CueLines(ds, i) == {j \in (i + 1)..(NextTime(ds, i) - 1) : ds[j].kind = "text"}

\* the bodies of the text lines of ds at positions from..to, one space between
RECURSIVE Bodies(_, _, _)
Bodies(ds, from, to) ==
    IF from > to THEN <<>>
    ELSE IF ds[from].kind # "text" THEN Bodies(ds, from + 1, to)
    ELSE LET rest == Bodies(ds, from + 1, to)
         IN  IF rest = <<>> THEN ds[from].body
             ELSE ds[from].body \o <<" ">> \o rest

\* the text of each cue of ds that has text, in order
RECURSIVE CueTexts(_, _)
CueTexts(ds, k) ==
    IF k > Cardinality(TimeIdx(ds)) THEN <<>>
    ELSE LET i == KthTime(ds, k)
             t == Bodies(ds, i + 1, NextTime(ds, i) - 1)
         IN  (IF t = <<>> THEN <<>> ELSE <<t>>) \o CueTexts(ds, k + 1)

\* a text line stands before the first time-range line
LeadingText(ds) ==
    \E j \in 1..Len(ds) :
        ds[j].kind = "text" /\ \A i \in TimeIdx(ds) : j < i

\* ds without the text lines before its first time-range line
DropLeadingText(ds) ==
    SelectSeq(SubSeq(ds, 1, NextTime(ds, 0) - 1), LAMBDA d : d.kind # "text")
        \o SubSeq(ds, NextTime(ds, 0), Len(ds))

\* cue blocks only: every time-range line has a text line of its own, and
\* no text stands before the first
WellFormed(ds) ==
    /\ ~LeadingText(ds)
    /\ \A i \in TimeIdx(ds) : CueLines(ds, i) # {}

ParseDone == parse_pc = "done"

(***************************************************************************)
(* Claims about parse_srt (SpecParse).                                     *)
(***************************************************************************)
\* C1: an input of N cue blocks (a time-range line, then at least one text
\* line, with index and blank lines anywhere) gives exactly N records, the
\* k-th with the two stamps of the k-th time-range line; the last cue, which
\* no time-range line follows, is among them.
C1_OneRecordPerCue ==
    (ParseDone /\ WellFormed(src_lines)) =>
        /\ ~parse_out.raised
        /\ Len(parse_out.subtitles) = Cardinality(TimeIdx(src_lines))
        /\ \A k \in 1..Len(parse_out.subtitles) :
              /\ parse_out.subtitles[k].start_time
                    = Stamp(src_lines[KthTime(src_lines, k)].st)
              /\ parse_out.subtitles[k].end_time
                    = Stamp(src_lines[KthTime(src_lines, k)].en)

\* two cue blocks, the second ended by the end of the input, parsed to two
\* records
C1_Witness ==
    /\ ParseDone
    /\ WellFormed(src_lines)
    /\ Cardinality(TimeIdx(src_lines)) = 2
    /\ src_lines[Len(src_lines)].kind = "text"
    /\ src_lines[KthTime(src_lines, 1)].st # src_lines[KthTime(src_lines, 2)].st
    /\ Len(parse_out.subtitles) = 2

\* C2: parse_srt raises on no input whatever.
C2_NeverRaises == ParseDone => ~parse_out.raised

\* C3: an input without any time-range line gives the empty list.
C3_NoTimeRangeGivesEmpty ==
    (ParseDone /\ TimeIdx(src_lines) = {}) =>
        (~parse_out.raised /\ parse_out.subtitles = <<>>)

\* C4: text before the first time-range line is dropped silently: the call
\* returns what it returns for the input without that text.
C4_LeadingTextDropped ==
    (ParseDone /\ LeadingText(src_lines) /\ TimeIdx(src_lines) # {}) =>
        /\ ~parse_out.raised
        /\ parse_out.subtitles
              = parse_srt(JoinLines(DropLeadingText(src_lines), eol)).subtitles

\* C5: the text of the records is, cue by cue, the trimmed text lines of the
\* cue joined by one space; blank and digit lines add nothing and do not
\* end the cue.
C5_TextJoined ==
    (ParseDone /\ ~parse_out.raised) =>
        [k \in 1..Len(parse_out.subtitles) |-> parse_out.subtitles[k].text]
            = CueTexts(src_lines, 1)

\* a cue whose two text lines, one padded, are separated by a blank or
\* digit line, returned as one record
C5_Witness ==
    /\ ParseDone
    /\ ~parse_out.raised
    /\ Len(parse_out.subtitles) = 1
    /\ \E i \in 1..(Len(src_lines) - 3) :
          /\ src_lines[i].kind = "time"
          /\ src_lines[i + 1].kind = "text"
          /\ src_lines[i + 1].pre # <<>>
          /\ src_lines[i + 2].kind \in {"blank", "digit"}
          /\ src_lines[i + 3].kind = "text"
          /\ parse_out.subtitles[1].text
                = src_lines[i + 1].body \o <<" ">> \o src_lines[i + 3].body

(***************************************************************************)
(* Claims about srt_time_to_seconds (SpecTime).                            *)
(***************************************************************************)
\* C6: HH:MM:SS,mmm converts to ((HH*60 + MM)*60 + SS)*1000 + mmm
\* milliseconds, the fields taken as written whatever their range;
\* 01:02:03,456 gives 3723.456 seconds.
C6_TimeFormula ==
    (time_pc = "done") =>
        /\ total_seconds = FieldMs(time_fields)
        /\ (srt_time = <<"0", "1", ":", "0", "2", ":", "0", "3", ",", "4", "5", "6">>
              => total_seconds = 3723456)

\* 01:99:75,456 converted
C6_Witness ==
    /\ time_pc = "done"
    /\ srt_time = <<"0", "1", ":", "9", "9", ":", "7", "5", ",", "4", "5", "6">>
    /\ total_seconds = 3600000 + 99 * 60000 + 75000 + 456

(***************************************************************************)
(* Claims about the service (Spec).                                        *)
(***************************************************************************)
\* the request has a composite built from its overlays
Composed(r) == pc[r] = "remove" \/ (pc[r] = "done" /\ status[r] = 200)

\* C7: the composite holds exactly one overlay per record parse_srt
\* returned, in order, each starting at the record's start time and lasting
\* end minus start, also when that is zero or negative.
C7_OneOverlayPerRecord ==
    \A r \in Requests :
        Composed(r) =>
            LET records == parse_srt(form[r].srt.content).subtitles
                ds == SampleOf(form[r].srt.content)
                overlays == result[r].overlays
            IN  /\ Len(overlays) = Len(records)
                /\ \A k \in 1..Len(overlays) :
                      LET cue == ds[KthTime(ds, k)]
                      IN  /\ overlays[k].text = records[k].text
                          /\ overlays[k].start = FieldMs(cue.st)
                          /\ overlays[k].duration
                                = FieldMs(cue.en) - FieldMs(cue.st)

\* a composite of three overlays, one of duration zero and one of negative
\* duration
C7_Witness ==
    \E r \in Requests :
        /\ Composed(r)
        /\ Len(result[r].overlays) = 3
        /\ result[r].overlays[1].duration = 2500
        /\ result[r].overlays[2].duration = 0
        /\ result[r].overlays[3].duration < 0

\* C8: once a request that called add_subtitles_to_video has finished, by
\* whatever exit, the temp_video.mp4 written for it is gone.
C8_TempFileRemoved ==
    \A r \in Requests :
        (pc[r] = "done" /\ invoked[r]) =>
            ~(temp_file.exists /\ temp_file.content.id = r)

\* C9: a request opens and encodes the video it uploaded, and between its
\* writing temp_video.mp4 and its removing it no other request overwrites
\* or deletes the file.
C9_RequestsIsolated ==
    \A r \in Requests :
        /\ pc[r] \in {"parse", "clips", "remove"} => video[r] = video_content[r]
        /\ pc[r] \in {"open", "parse", "clips", "remove"}
              => temp_file = FileOf(video_content[r])
        /\ Composed(r) => result[r].video = video_content[r]

\* the form lacks a part, or a part has an empty filename
Rejected(files) ==
    \/ ~files.video.present
    \/ ~files.srt.present
    \/ files.video.filename = ""
    \/ files.srt.filename = ""

\* C10: a request lacking the video or the srt part, or with an empty
\* filename in either, is answered 400 with a JSON error without any upload
\* read, temp_video.mp4 written or add_subtitles_to_video called; the call
\* happens only for requests with both parts and both filenames.
C10_RejectedBeforeWork ==
    \A r \in Requests :
        /\ Rejected(form[r]) =>
              /\ pc[r] \in {"received", "done"}
              /\ ~invoked[r]
              /\ video_content[r] = NoBytes
              /\ srt_text[r] = <<>>
              /\ ~(temp_file.exists /\ temp_file.content.id = r)
              /\ pc[r] = "done" => (status[r] = 400 /\ body[r].kind = "json")
        /\ invoked[r] => ~Rejected(form[r])
        /\ (pc[r] # "received" /\ ~Rejected(form[r])) => invoked[r]

\* one request rejected for a missing part, one for an empty filename
C10_Witness ==
    \E r1, r2 \in Requests :
        /\ pc[r1] = "done" /\ ~form[r1].srt.present /\ form[r1].video.present
        /\ body[r1] = ErrorJson("No video or SRT file part")
        /\ pc[r2] = "done" /\ form[r2].video.present /\ form[r2].srt.present
        /\ form[r2].video.filename # "" /\ form[r2].srt.filename = ""
        /\ body[r2] = ErrorJson("No selected file")
        /\ status[r1] = 400 /\ status[r2] = 400

====
